---- MODULE Spec2Model ----
(***************************************************************************)
(* A model of eps-server: the EpdMac address codec (image_handler.rs,      *)
(* FromStr / Display), the ImageHandler file store (get_macs, get_svg,     *)
(* get_png, delete_images, post_svg_body) and the request handlers of      *)
(* main.rs.                                                                *)
(*                                                                         *)
(* A Rust string is a sequence of characters, each a one-character string; *)
(* "e'" stands for a two-byte UTF-8 character.  A file's content is a      *)
(* sequence of tokens: an unbroken run of bytes that one write(2) puts     *)
(* down stands for one or more tokens, and a write at offset 0 of n tokens *)
(* replaces the first n tokens of the file.                                *)
(***************************************************************************)
EXTENDS Integers, Sequences, FiniteSets, TLC

VARIABLES
  codec,      \* the codec under test: text, from_str's result, Display's output
  dir,        \* the image directory: file name -> entry, or NoDir
  req,        \* per client: the request in flight, or the last one and its response
  calls       \* the number of requests issued so far

vars == <<codec, dir, req, calls>>

(***************************************************************************)
(* Characters and strings                                                  *)
(***************************************************************************)

MAC_LEN == 8

\* Option<T>
Some(v) == [some |-> TRUE, val |-> v]
NoneOpt == [some |-> FALSE]

UpperHex ==
  <<"0", "1", "2", "3", "4", "5", "6", "7", "8", "9", "A", "B", "C", "D", "E", "F">>

\* A character the model uses that takes two bytes in UTF-8.
WideChar == "e'"

\* char::len_utf8
LenUtf8(c) == IF c = WideChar THEN 2 ELSE 1

\* str::len: the length in bytes, one per character and one more for each
\* character of two bytes
StrLen(s) == Len(s) + Cardinality({k \in 1..Len(s) : LenUtf8(s[k]) = 2})

RECURSIVE CharAt(_, _, _, _)
\* The index of the character of s that starts at byte offset i, found by
\* walking s from its character k, which starts at byte offset off:
\* Len(s) + 1 when i is the end of s, 0 when i falls inside a character or
\* beyond the end.
CharAt(s, k, off, i) ==
  IF off = i THEN k
  ELSE IF off > i \/ k > Len(s) THEN 0
  ELSE CharAt(s, k + 1, off + LenUtf8(s[k]), i)

\* str::get(i..j): the substring of bytes [i, j), None when i or j is not a
\* character boundary or is out of range.
StrGet(s, i, j) ==
  LET first == CharAt(s, 1, 0, i)
      end == IF first = 0 THEN 0 ELSE CharAt(s, first, i, j)
  IN  IF i <= j /\ first # 0 /\ end # 0
        THEN Some(SubSeq(s, first, end - 1))
        ELSE NoneOpt

\* char::to_digit(16): the digit's value, -1 for a character that is no digit
ToDigit16(c) ==
  CASE c = "0" -> 0 [] c = "1" -> 1 [] c = "2" -> 2 [] c = "3" -> 3
    [] c = "4" -> 4 [] c = "5" -> 5 [] c = "6" -> 6 [] c = "7" -> 7
    [] c = "8" -> 8 [] c = "9" -> 9
    [] c = "a" \/ c = "A" -> 10 [] c = "b" \/ c = "B" -> 11
    [] c = "c" \/ c = "C" -> 12 [] c = "d" \/ c = "D" -> 13
    [] c = "e" \/ c = "E" -> 14 [] c = "f" \/ c = "F" -> 15
    [] OTHER -> -1

RECURSIVE DigitsValue(_, _)
\* The accumulation loop of from_str_radix: acc * 16 + digit, -1 on a
\* character that is no digit or when the value leaves u8.
DigitsValue(ds, acc) ==
  IF ds = <<>> THEN acc
  ELSE LET d == ToDigit16(Head(ds))
       IN  IF d < 0 THEN -1
           ELSE IF acc * 16 + d > 255 THEN -1
           ELSE DigitsValue(Tail(ds), acc * 16 + d)

\* u8::from_str_radix(src, 16): -1 stands for Err.  An empty string and a
\* lone sign are errors; a leading '+' is dropped; '-' is no sign for an
\* unsigned type and is read as a digit, which it is not.
FromStrRadix16(src) ==
  IF src = <<>> THEN -1
  ELSE IF Len(src) = 1 /\ Head(src) \in {"+", "-"} THEN -1
  ELSE IF Head(src) = "+" THEN DigitsValue(Tail(src), 0)
  ELSE DigitsValue(src, 0)

\* One step of the filter_map of from_str: s.get(i..i + 2) and then
\* from_str_radix, -1 when either gives nothing.
PairValue(s, i) ==
  LET sub == StrGet(s, i, i + 2)
  IN  IF sub.some THEN FromStrRadix16(sub.val) ELSE -1

RECURSIVE Collect(_, _, _)
\* collect() over (i..len).step_by(2): the bytes the filter_map of from_str
\* keeps, one per pair that is a substring and parses.
Collect(s, i, len) ==
  IF i >= len THEN <<>>
  ELSE LET v == PairValue(s, i)
       IN  IF v >= 0 THEN <<v>> \o Collect(s, i + 2, len)
           ELSE Collect(s, i + 2, len)

Ok(v) == [ok |-> TRUE, val |-> v]
Err(e) == [ok |-> FALSE, err |-> e]

\* <EpdMac as FromStr>::from_str
from_str(s) ==
  LET len == StrLen(s)
  IN  IF len # MAC_LEN * 2 THEN Err("Mac must be 8 bytes long!")
      ELSE LET bytes == Collect(s, 0, len)
           IN  IF Len(bytes) # MAC_LEN
                 THEN Err("Could not parse MAC from {s}")
                 ELSE Ok(bytes)

\* {b:02X}
Hex02X(b) == <<UpperHex[(b \div 16) + 1], UpperHex[(b % 16) + 1]>>

RECURSIVE to_string(_)
\* <EpdMac as Display>::fmt
to_string(mac) ==
  IF mac = <<>> THEN <<>> ELSE Hex02X(Head(mac)) \o to_string(Tail(mac))

\* char::to_lowercase on the characters of the model
LowerChar(c) ==
  CASE c = "A" -> "a" [] c = "B" -> "b" [] c = "C" -> "c" [] c = "D" -> "d"
    [] c = "E" -> "e" [] c = "F" -> "f" [] c = "G" -> "g" [] c = "Z" -> "z"
    [] c = "X" -> "x"
    [] OTHER -> c

\* str::to_lowercase
to_lowercase(s) == [k \in 1..Len(s) |-> LowerChar(s[k])]

(***************************************************************************)
(* The address texts                                                       *)
(***************************************************************************)

\* The address texts of the tests of main.rs and image_handler.rs.
Text0011 ==
  <<"0", "0", "1", "1", "2", "2", "3", "3", "4", "4", "5", "5", "6", "6", "7", "7">>
TextAABB ==
  <<"A", "A", "B", "B", "C", "C", "D", "D", "E", "E", "F", "F", "A", "A", "B", "B">>
TextInvalid ==
  <<"0", "0", "1", "1", "2", "2", "3", "3", "4", "4", "5", "5", "6", "6", "7", "z">>
Textaabb ==
  <<"a", "a", "b", "b", "c", "c", "d", "d", "0", "0", "1", "1", "2", "2", "3", "3">>
Text1234 ==
  <<"1", "2", "3", "4", "5", "6", "7", "8", "9", "a", "b", "c", "d", "e", "f", "1">>
TextPlus ==
  <<"+", "0", "+", "1", "+", "2", "+", "3", "+", "4", "+", "5", "+", "6", "+", "7">>

\* The address texts the clients send.
Texts == {Text0011, TextAABB, TextInvalid}

\* from_str on the texts the clients send.
ParsedTexts == [t \in Texts |-> from_str(t)]

\* str::parse::<EpdMac>: from_str(s), looked up for a text of the clients
parse(s) == IF s \in Texts THEN ParsedTexts[s] ELSE from_str(s)

\* The addresses the clients name.
Macs == {parse(t).val : t \in {u \in Texts : parse(u).ok}}

Mac0011 == parse(Text0011).val
MacAABB == parse(TextAABB).val

(***************************************************************************)
(* Paths and the image directory                                           *)
(***************************************************************************)

SVG_EXT == <<".", "s", "v", "g">>
BMP_EXT == <<".", "b", "m", "p">>
PNG_EXT == <<".", "p", "n", "g">>

\* FileName with the address left out of the joined name.
FileNameNoAddress(mac, ext) == to_lowercase(to_string(<<>>)) \o ext

\* image_dir.join(mac.to_string().to_lowercase() + ext): the file's name in
\* the image directory
FileName(mac, ext) == to_lowercase(to_string(mac)) \o ext

\* The position of the dot that splits a file name into stem and extension
\* (std::path, rsplit_file_at_dot): the last dot, 0 when the name has none
\* or only a leading one.
SplitDot(name) ==
  LET dots == {k \in 2..Len(name) : name[k] = "."}
  IN  IF dots = {} THEN 0 ELSE CHOOSE k \in dots : \A j \in dots : j <= k

\* Path::extension
extension(name) ==
  IF SplitDot(name) = 0 THEN NoneOpt
  ELSE Some(SubSeq(name, SplitDot(name) + 1, Len(name)))

\* Path::file_stem
file_stem(name) ==
  IF SplitDot(name) = 0 THEN Some(name)
  ELSE Some(SubSeq(name, 1, SplitDot(name) - 1))

\* The image directory is a function from the names in it to entries.  An
\* entry is a regular file with its content and inode number, or a
\* directory.  NoDir is the value of an image_dir that cannot be opened
\* (missing, no permission): it binds the empty name, which no file has.
RegularFile(data, ino) == [type |-> "file", data |-> data, ino |-> ino]
Directory == [type |-> "dir", data |-> <<>>, ino |-> 0]

NoDir == [n \in {<<>>} |-> Directory]

Exists(d, name) == d # NoDir /\ name \in DOMAIN d
IsFile(d, name) == Exists(d, name) /\ d[name].type = "file"

\* The directory with `name` bound to entry e.
WithEntry(d, name, e) ==
  [n \in DOMAIN d \cup {name} |-> IF n = name THEN e ELSE d[n]]

\* The directory without `name`.
WithoutEntry(d, name) == [n \in DOMAIN d \ {name} |-> d[n]]

\* open(2) with O_CREAT | O_TRUNC | O_WRONLY (File::create): fails when the
\* directory is missing or the name is a directory; an existing file keeps
\* its inode and loses its content, a new file gets inode `fresh`.
CanCreate(d, name) ==
  d # NoDir /\ (name \in DOMAIN d => d[name].type = "file")

Created(d, name, fresh) ==
  WithEntry(d, name,
            RegularFile(<<>>, IF name \in DOMAIN d THEN d[name].ino ELSE fresh))

\* A write(2) of `bytes` at offset 0.
Overwrite(old, bytes) == bytes \o SubSeq(old, Len(bytes) + 1, Len(old))

\* A write through a handle on inode `ino` that was opened as `name`: the
\* directory shows it only while `name` still is that inode.
Written(d, name, ino, bytes) ==
  IF IsFile(d, name) /\ d[name].ino = ino
    THEN WithEntry(d, name, RegularFile(Overwrite(d[name].data, bytes), ino))
    ELSE d

\* std::fs::remove_file: succeeds on a regular file only.
CanRemove(d, name) == IsFile(d, name)

Removed(d, name) == IF CanRemove(d, name) THEN WithoutEntry(d, name) ELSE d

\* A byte no write has set: what a write past the end of a file leaves
\* between the old end and its offset.
Hole == [t |-> "NUL", a |-> "", w |-> 0, h |-> 0]

\* A write(2) of `bytes` at offset `off`.
WriteAt(old, off, bytes) ==
  LET head == IF Len(old) >= off THEN SubSeq(old, 1, off)
              ELSE old \o [k \in 1..(off - Len(old)) |-> Hole]
  IN  head \o bytes \o SubSeq(old, off + Len(bytes) + 1, Len(old))

\* A write at offset `off` through a handle on inode `ino` opened as `name`.
WrittenAt(d, name, ino, off, bytes) ==
  IF IsFile(d, name) /\ d[name].ino = ino
    THEN WithEntry(d, name, RegularFile(WriteAt(d[name].data, off, bytes), ino))
    ELSE d

\* A read(2) of at most n bytes at offset `off`: nothing at or past the end.
ReadAt(data, off, n) ==
  SubSeq(data, off + 1, IF off + n <= Len(data) THEN off + n ELSE Len(data))

\* What File::open returns: a handle on the entry the name has at that
\* moment, a regular file's inode or a directory.  NoHandle is the value
\* of a request that holds none.
Handle(d, name) == [name |-> name, ino |-> d[name].ino, type |-> d[name].type]
NoHandle == [name |-> <<>>, ino |-> 0, type |-> "none"]

\* The handle's inode is the one the directory has at the handle's name.
Linked(d, h) ==
  Exists(d, h.name) /\ d[h.name].type = h.type /\ d[h.name].ino = h.ino

(***************************************************************************)
(* Configuration and the rasterizer (usvg, resvg, tiny_skia)               *)
(***************************************************************************)

\* Config.epd_width, Config.epd_height
EpdWidth == 128
EpdHeight == 296

\* One token of a file's content.
Token(t, a, w, h) == [t |-> t, a |-> a, w |-> w, h |-> h]

\* The markup a request body may hold, token by token: well-formed elements
\* and a tag that is never closed.
Elements == {"<circle/>", "<rect/>", "<path/>"}

\* The document post_svg_body builds in buf: the root element with the
\* configured viewBox, the body, the closing tag.
WrapSvg(body) ==
  <<Token("<svg>", "viewBox", EpdWidth, EpdHeight)>>
    \o [k \in 1..Len(body) |-> Token("body", body[k], 0, 0)]
    \o <<Token("</svg>", "", 0, 0)>>

\* usvg::Tree::from_data: Err on markup that is not well-formed; the tree's
\* size is the root's viewBox.
from_data(buf) ==
  IF /\ Len(buf) >= 2
     /\ buf[1].t = "<svg>" /\ buf[1].w > 0 /\ buf[1].h > 0
     /\ buf[Len(buf)].t = "</svg>"
     /\ \A k \in 2..(Len(buf) - 1) : buf[k].t = "body" /\ buf[k].a \in Elements
    THEN Ok([width |-> buf[1].w, height |-> buf[1].h,
             nodes |-> [k \in 1..(Len(buf) - 2) |-> buf[k + 1].a]])
    ELSE Err("usvg")

\* Pixmap::new(size) and resvg::render with FitTo::Original: a pixmap of
\* the tree's size, painted node by node.
render(tree) ==
  [width |-> tree.width, height |-> tree.height, pixels |-> tree.nodes]

\* Pixmap::encode_png: the header with the dimensions, the image data (as
\* long as the painting is rich), the end chunk.
encode_png(pixmap) ==
  <<Token("IHDR", "", pixmap.width, pixmap.height)>>
    \o [k \in 1..Len(pixmap.pixels) |-> Token("IDAT", pixmap.pixels[k], 0, 0)]
    \o <<Token("IEND", "", 0, 0)>>

\* The dimensions a PNG decoder reads from `data`; <<0, 0>> when `data` is
\* no complete PNG.
PngDimensions(data) ==
  IF /\ Len(data) >= 2
     /\ data[1].t = "IHDR"
     /\ data[Len(data)].t = "IEND"
     /\ \A k \in 2..(Len(data) - 1) : data[k].t = "IDAT"
    THEN <<data[1].w, data[1].h>>
    ELSE <<0, 0>>

(***************************************************************************)
(* ImageHandler: the operations that read                                  *)
(***************************************************************************)

\* The names get_macs' filter_map keeps: those with the extension "png" (and
\* a stem).
PngNames(d) ==
  {n \in DOMAIN d : extension(n) = Some(<<"p", "n", "g">>) /\ file_stem(n).some}

\* ImageHandler::get_macs.  read_dir yields the entries in no specified
\* order, so the Vec is modelled up to its order: val maps each address to
\* the number of times the Vec holds it.  The filter_map yields the parse
\* result of each kept name's stem, and collect() into a Result is Err as
\* soon as one of them is.
get_macs(d) ==
  IF d = NoDir THEN Err("InternalServerError")
  ELSE LET results == {<<n, parse(file_stem(n).val)>> : n \in PngNames(d)}
       IN  IF \E r \in results : ~r[2].ok THEN Err("InternalServerError")
           ELSE Ok([m \in {r[2].val : r \in results} |->
                      Cardinality({r \in results : r[2].val = m})])

\* ImageHandler::get_file: File::open, NotFound on any error, and the
\* handle wrapped in a ReaderStream; nothing is read yet.  open(2) for
\* reading succeeds on a directory too.
get_file(d, name) ==
  IF Exists(d, name) THEN Ok(Handle(d, name)) ELSE Err("NotFound")

\* ImageHandler::get_svg
get_svg(d, mac) == get_file(d, FileName(mac, SVG_EXT))

\* ImageHandler::get_png
get_png(d, mac) == get_file(d, FileName(mac, PNG_EXT))

\* The response of stream_to_response on a get_file result when the body
\* is read with nothing else running: the file's content, or the failure
\* of the read on a directory.
Delivered(d, result) ==
  IF ~result.ok THEN result
  ELSE IF result.val.type = "dir" THEN Err("IsADirectory")
  ELSE Ok(d[result.val.name].data)

(***************************************************************************)
(* The bodies and the directories the model starts from                    *)
(***************************************************************************)

\* tokio's File hands a write to the blocking pool in pieces of at most
\* its buffer size (2 MiB), and ReaderStream reads a file in pieces of at
\* most its buffer's capacity.  The model counts content in tokens:
\* BufTokens of them fill the write buffer, ReadTokens the read buffer.
BufTokens == 3
ReadTokens == 2

\* The request bodies the clients send: one element, whose document fits
\* the write buffer, two elements, whose document does not, and a tag that
\* is not closed.
BodyCircle == <<"<circle/>">>
BodyRectCircle == <<"<rect/>", "<circle/>">>
BodyMalformed == <<"<circle">>
Bodies == {BodyCircle, BodyRectCircle, BodyMalformed}

\* What an earlier render left: a document of three elements and its image.
OldSvg == WrapSvg(<<"<path/>", "<path/>", "<path/>">>)
OldPng == encode_png(render(from_data(OldSvg).val))

EmptyFile == RegularFile(<<>>, 0)

NameReadme == <<"r", "e", "a", "d", "m", "e", ".", "t", "x", "t">>
NameCover == <<"c", "o", "v", "e", "r", ".", "p", "n", "g">>
NameSub == <<"s", "u", "b">>
NameHidden == <<".", "p", "n", "g">>

EmptyDir == <<>>

\* get_test_fixture of main.rs
FixtureDir ==
  (FileName(Mac0011, PNG_EXT) :> EmptyFile)
    @@ (FileName(MacAABB, PNG_EXT) :> EmptyFile)
    @@ (FileName(MacAABB, SVG_EXT) :> EmptyFile)

\* One address with all three assets, the other with a .bmp only.
FullDir ==
  (FileName(Mac0011, SVG_EXT) :> RegularFile(OldSvg, 0))
    @@ (FileName(Mac0011, PNG_EXT) :> RegularFile(OldPng, 0))
    @@ (FileName(Mac0011, BMP_EXT) :> EmptyFile)
    @@ (FileName(MacAABB, BMP_EXT) :> EmptyFile)

\* Entries that are no asset beside partial asset sets.
StrayDir ==
  (NameReadme :> EmptyFile) @@ (NameSub :> Directory) @@ (NameHidden :> EmptyFile)
    @@ (FileName(Mac0011, SVG_EXT) :> RegularFile(OldSvg, 0))
    @@ (FileName(Mac0011, BMP_EXT) :> EmptyFile)
    @@ (FileName(MacAABB, BMP_EXT) :> EmptyFile)
    @@ (FileName(MacAABB, PNG_EXT) :> RegularFile(OldPng, 0))

\* A .png whose stem is no address.
BadStemDir == (NameCover :> EmptyFile) @@ FixtureDir

\* A .png whose stem is an address in upper case.
UpperStemDir ==
  (to_string(MacAABB) \o PNG_EXT :> EmptyFile)
    @@ (FileName(Mac0011, SVG_EXT) :> RegularFile(OldSvg, 0))

\* Directories under asset names.
SubdirDir ==
  (FileName(Mac0011, PNG_EXT) :> Directory)
    @@ (FileName(MacAABB, SVG_EXT) :> Directory)
    @@ (FileName(MacAABB, PNG_EXT) :> RegularFile(OldPng, 0))

InitDirs ==
  {NoDir, EmptyDir, FixtureDir, FullDir, StrayDir, BadStemDir, UpperStemDir,
   SubdirDir}

(***************************************************************************)
(* Requests.  A client sends one request at a time; req[c] is its request  *)
(* in flight or, once res is set, the response it got.                     *)
(***************************************************************************)

Clients == {"c1", "c2"}

\* The largest number of requests the clients issue in one behaviour.
MaxCalls == 2

Kinds == {"svg", "bmp", "png"}

ExtOf(kind) ==
  CASE kind = "svg" -> SVG_EXT [] kind = "bmp" -> BMP_EXT [] kind = "png" -> PNG_EXT

\* The asset kinds of `mac` that are regular files in the directory.
AssetFiles(d, mac) == {k \in Kinds : IsFile(d, FileName(mac, ExtOf(k)))}

Mutating == {"render", "delete"}

NoPrev == [op |-> "none", res |-> "None", had |-> {}]

Blank ==
  [op |-> "idle", text |-> <<>>, mac |-> <<>>, body |-> <<>>, id |-> 0,
   pc |-> "done", res |-> "None", svg_ino |-> 0, png_ino |-> 0, got |-> <<>>,
   \* a render's write_all: the bytes of buf handed to the blocking pool so
   \* far, and those of them that have been written
   handed |-> 0, landed |-> 0,
   \* a get's response body: the handle the stream reads from, the content
   \* of its inode once no name has it any more, how the reading ended
   stream |-> NoHandle, orphan |-> NoneOpt, read |-> "None",
   \* what the request found and did: the asset kinds that were files when
   \* it started, the kinds it removed, whether it changed the directory
   had |-> {}, rm |-> {}, changed |-> FALSE,
   \* the requests around it: the other requests on its address that were
   \* in flight while it was; whether no request on its address has started
   \* since it was answered; the request answered before it on its address;
   \* whether its write is the last that landed on the address's file
   overlap |-> {}, fresh |-> FALSE, prev |-> NoPrev,
   svg_last |-> FALSE, png_last |-> FALSE]

\* No other request on the address was in flight while r was.
Solo(r) == r.overlap = {}

\* The request has been received and not answered yet.
InFlight(r) == r.op \in Mutating /\ r.res = "None"

\* The client may send its next request: it has its answer, and (a bound of
\* the model) the blocking write its last request left behind has landed.
CanStart(c) == req[c].pc = "done" /\ calls < MaxCalls

\* What a request that starts on `mac` records about the requests around it:
\* overlap, the requests on the address that are in flight; prev, the
\* request on the address that was answered last, when nothing has run on
\* the address since and nothing overlapped it.
OverlapAtStart(c, mac) ==
  {req[k].id : k \in {j \in Clients \ {c} : InFlight(req[j]) /\ req[j].mac = mac}}

PrevAtStart(mac) ==
  LET last == {k \in Clients : /\ req[k].op \in Mutating /\ req[k].mac = mac
                               /\ req[k].res # "None"
                               /\ req[k].fresh /\ Solo(req[k])}
  IN  IF last = {} THEN NoPrev
      ELSE LET k == CHOOSE k \in last : TRUE
           IN  [op |-> req[k].op, res |-> req[k].res, had |-> req[k].had]

\* req after client c has sent the request recorded as `new` on `mac`: the
\* requests in flight on the address overlap it, the answered ones are no
\* longer the last.
Begun(c, mac, new) ==
  [k \in Clients |->
     IF k = c THEN new
     ELSE IF req[k].op \in Mutating /\ req[k].mac = mac
       THEN [req[k] EXCEPT
               !.overlap = IF InFlight(req[k]) THEN @ \cup {new.id} ELSE @,
               !.fresh = FALSE]
       ELSE req[k]]

\* A request whose address text does not parse, answered with another error.
RejectedAsNotFound(op, text) ==
  [Blank EXCEPT !.op = op, !.text = text, !.id = calls + 1,
                !.res = "NotFound"]

\* A request answered by the handler before the store is called: the
\* address text does not parse (map_err(AppError::BadRequest)).
Rejected(op, text) ==
  [Blank EXCEPT !.op = op, !.text = text, !.id = calls + 1,
                !.res = "BadRequest"]

(***************************************************************************)
(* main.rs render_svg and ImageHandler::post_svg_body                      *)
(***************************************************************************)

\* The request's first step: the handler parses the address and
\* post_svg_body runs to its second file operation: File::create(svg_path),
\* the document built in buf, usvg::Tree::from_data, resvg::render.
Handle_render_svg(c, text, body) ==
  /\ CanStart(c)
  /\ calls' = calls + 1
  /\ UNCHANGED codec
  /\ LET parsed == parse(text) IN
     IF ~parsed.ok
       THEN /\ req' = [req EXCEPT ![c] = Rejected("render", text)]
            /\ dir' = dir
       ELSE LET mac == parsed.val
                svg_path == FileName(mac, SVG_EXT)
                new == [Blank EXCEPT !.op = "render", !.text = text,
                                     !.mac = mac, !.body = body,
                                     !.id = calls + 1,
                                     !.overlap = OverlapAtStart(c, mac),
                                     !.prev = PrevAtStart(mac),
                                     !.had = AssetFiles(dir, mac)]
            IN  IF ~CanCreate(dir, svg_path)
                  THEN /\ dir' = dir
                       /\ req' = Begun(c, mac,
                            [new EXCEPT !.res = "InternalServerError",
                                        !.fresh = TRUE])
                  ELSE /\ dir' = Created(dir, svg_path, 2 * (calls + 1))
                       /\ req' = Begun(c, mac,
                            [new EXCEPT
                               !.svg_ino = dir'[svg_path].ino,
                               !.changed = (dir' # dir),
                               !.pc = IF from_data(WrapSvg(body)).ok
                                        THEN "save_png" ELSE "done",
                               !.res = IF from_data(WrapSvg(body)).ok
                                         THEN "None" ELSE "BadRequest",
                               !.fresh = ~from_data(WrapSvg(body)).ok])

\* The open response bodies after a step from directory d to d2: a stream
\* whose file has been unlinked keeps its inode, with the content it had.
Unlinked(rq, d, d2) ==
  [k \in Clients |->
     IF /\ rq[k].pc = "stream" /\ rq[k].stream.type = "file"
        /\ ~rq[k].orphan.some
        /\ Linked(d, rq[k].stream) /\ ~Linked(d2, rq[k].stream)
       THEN [rq[k] EXCEPT !.orphan = Some(d[rq[k].stream.name].data)]
       ELSE rq[k]]

\* The open response bodies after a write at `off` through a handle on the
\* inode `ino` opened as `name`, when no name has that inode any more.
OrphanWritten(rq, name, ino, off, bytes) ==
  [k \in Clients |->
     IF /\ rq[k].pc = "stream" /\ rq[k].orphan.some
        /\ rq[k].stream.name = name /\ rq[k].stream.ino = ino
       THEN [rq[k] EXCEPT !.orphan = Some(WriteAt(@.val, off, bytes))]
       ELSE rq[k]]

\* save_png given the address's .bmp path instead of its .png path.
post_svg_body_bmp_create(c) ==
  /\ req[c].op = "render" /\ req[c].pc = "save_png"
  /\ UNCHANGED <<codec, calls>>
  /\ LET bmp_path == FileName(req[c].mac, BMP_EXT)
     IN  IF ~CanCreate(dir, bmp_path)
           THEN /\ dir' = dir
                /\ req' = [req EXCEPT ![c].pc = "done",
                                      ![c].res = "InternalServerError",
                                      ![c].fresh = TRUE]
           ELSE /\ dir' = Created(dir, bmp_path, 2 * req[c].id + 1)
                /\ req' = [req EXCEPT ![c].pc = "png_write",
                                      ![c].png_ino = dir'[bmp_path].ino,
                                      ![c].changed = @ \/ (dir' # dir)]

\* pixmap.save_png(png_path), first half: std::fs::write opens the file
\* with create and truncate.
post_svg_body_png_create(c) ==
  /\ req[c].op = "render" /\ req[c].pc = "save_png"
  /\ UNCHANGED <<codec, calls>>
  /\ LET png_path == FileName(req[c].mac, PNG_EXT)
     IN  IF ~CanCreate(dir, png_path)
           THEN /\ dir' = dir
                /\ req' = [req EXCEPT ![c].pc = "done",
                                      ![c].res = "InternalServerError",
                                      ![c].fresh = TRUE]
           ELSE /\ dir' = Created(dir, png_path, 2 * req[c].id + 1)
                /\ req' = [req EXCEPT ![c].pc = "png_write",
                                      ![c].png_ino = dir'[png_path].ino,
                                      ![c].changed = @ \/ (dir' # dir)]

\* req after client c's write to its address's .svg or .png has landed: its
\* record has become `new`, and no other render's write is the last one.
Landed(c, new, field) ==
  [k \in Clients |->
     IF k = c THEN new
     ELSE IF req[k].op = "render" /\ req[k].mac = new.mac
       THEN IF field = "png_last" THEN [req[k] EXCEPT !.png_last = FALSE]
            ELSE [req[k] EXCEPT !.svg_last = FALSE]
       ELSE req[k]]

\* pixmap.save_png(png_path), second half: the encoded image is written.
post_svg_body_png_write(c) ==
  /\ req[c].op = "render" /\ req[c].pc = "png_write"
  /\ UNCHANGED <<codec, calls>>
  /\ dir' = Written(dir, FileName(req[c].mac, PNG_EXT), req[c].png_ino,
                    encode_png(render(from_data(WrapSvg(req[c].body)).val)))
  /\ req' = OrphanWritten(
              Landed(c, [req[c] EXCEPT !.pc = "write_all", !.png_last = TRUE,
                                       !.changed = @ \/ (dir' # dir)],
                     "png_last"),
              FileName(req[c].mac, PNG_EXT), req[c].png_ino, 0,
              encode_png(render(from_data(WrapSvg(req[c].body)).val)))

\* file.write_all(&buf).await, one turn of its loop: tokio's File copies at
\* most a buffer's size of what is left of buf and hands the write to a
\* blocking task.  With nothing left, write_all returns Ok at once and
\* post_svg_body answers; otherwise the future waits for the write.
post_svg_body_write_all(c) ==
  /\ req[c].op = "render" /\ req[c].pc = "write_all"
  /\ UNCHANGED <<codec, calls, dir>>
  /\ LET len == Len(WrapSvg(req[c].body))
         upto == IF req[c].handed + BufTokens <= len
                   THEN req[c].handed + BufTokens ELSE len
     IN  req' = [req EXCEPT
                   ![c].handed = upto,
                   ![c].pc = IF upto = len THEN "blocking_write"
                             ELSE "write_all_busy",
                   ![c].res = IF upto = len THEN "Ok" ELSE "None",
                   ![c].fresh = (upto = len)]

\* The blocking task of write_all writes what it was handed through the
\* handle File::create returned, at the handle's position; a future that
\* waits for it goes on with write_all.
post_svg_body_blocking_write(c) ==
  /\ req[c].op = "render" /\ req[c].pc \in {"write_all_busy", "blocking_write"}
  /\ UNCHANGED <<codec, calls>>
  /\ LET name == FileName(req[c].mac, SVG_EXT)
         bytes == SubSeq(WrapSvg(req[c].body), req[c].landed + 1, req[c].handed)
     IN  /\ dir' = WrittenAt(dir, name, req[c].svg_ino, req[c].landed, bytes)
         /\ req' = OrphanWritten(
                     Landed(c, [req[c] EXCEPT
                                  !.pc = IF @ = "blocking_write" THEN "done"
                                         ELSE "write_all",
                                  !.landed = req[c].handed,
                                  !.svg_last = TRUE,
                                  !.changed = @ \/ (dir' # dir)],
                            "svg_last"),
                     name, req[c].svg_ino, req[c].landed, bytes)

(***************************************************************************)
(* main.rs delete_images and ImageHandler::delete_images                   *)
(***************************************************************************)

\* DeleteResult failing as soon as one of the three removals failed.
DeleteResultAnyErr(rm) == IF rm = Kinds THEN "Ok" ELSE "NotFound"

\* The match of delete_images on the three results.
DeleteResult(rm) == IF rm = {} THEN "NotFound" ELSE "Ok"

\* RemoveStep stopping at the first removal that succeeded.
RemoveStepShortCircuit(r, d, kind) ==
  IF r.rm # {} THEN [dir |-> d, rm |-> r.rm]
  ELSE [dir |-> Removed(d, FileName(r.mac, ExtOf(kind))),
        rm |-> IF CanRemove(d, FileName(r.mac, ExtOf(kind))) THEN {kind} ELSE {}]

\* One remove_file of the tuple: the directory after it and the kinds
\* removed so far.
RemoveStep(r, d, kind) ==
  [dir |-> Removed(d, FileName(r.mac, ExtOf(kind))),
   rm |-> IF CanRemove(d, FileName(r.mac, ExtOf(kind)))
            THEN r.rm \cup {kind} ELSE r.rm]

\* The request's first step: the handler parses the address and the
\* blocking task of delete_images runs remove_file(svg_path).
Handle_delete_images(c, text) ==
  /\ CanStart(c)
  /\ calls' = calls + 1
  /\ UNCHANGED codec
  /\ LET parsed == parse(text) IN
     IF ~parsed.ok
       THEN /\ req' = [req EXCEPT ![c] = Rejected("delete", text)]
            /\ dir' = dir
       ELSE LET mac == parsed.val
                new == [Blank EXCEPT !.op = "delete", !.text = text,
                                     !.mac = mac, !.id = calls + 1,
                                     !.overlap = OverlapAtStart(c, mac),
                                     !.prev = PrevAtStart(mac),
                                     !.had = AssetFiles(dir, mac)]
                step == RemoveStep(new, dir, "svg")
            IN  /\ dir' = step.dir
                /\ req' = Unlinked(
                            Begun(c, mac,
                              [new EXCEPT !.pc = "remove_bmp", !.rm = step.rm,
                                          !.changed = (dir' # dir)]),
                            dir, dir')

\* remove_file(bmp_path)
delete_images_remove_bmp(c) ==
  /\ req[c].op = "delete" /\ req[c].pc = "remove_bmp"
  /\ UNCHANGED <<codec, calls>>
  /\ LET step == RemoveStep(req[c], dir, "bmp")
     IN  /\ dir' = step.dir
         /\ req' = Unlinked([req EXCEPT ![c].pc = "remove_png",
                                        ![c].rm = step.rm,
                                        ![c].changed = @ \/ (dir' # dir)],
                            dir, dir')

\* remove_file(png_path), the match on the three results and the answer
delete_images_remove_png(c) ==
  /\ req[c].op = "delete" /\ req[c].pc = "remove_png"
  /\ UNCHANGED <<codec, calls>>
  /\ LET step == RemoveStep(req[c], dir, "png")
     IN  /\ dir' = step.dir
         /\ req' = Unlinked([req EXCEPT ![c].pc = "done", ![c].rm = step.rm,
                                        ![c].res = DeleteResult(step.rm),
                                        ![c].fresh = TRUE,
                                        ![c].changed = @ \/ (dir' # dir)],
                            dir, dir')

(***************************************************************************)
(* main.rs get_svg, get_png, get_macs                                      *)
(***************************************************************************)

\* The answer of a handler that reads: the store's result as a response.
Answered(op, text, mac, result) ==
  [Blank EXCEPT !.op = op, !.text = text, !.mac = mac, !.id = calls + 1,
                !.res = IF result.ok THEN "Ok" ELSE result.err,
                !.got = IF result.ok THEN result.val ELSE <<>>]

\* stream_to_response on get_file's result: the handler answers with a
\* StreamBody on the handle, and the server reads the file as it sends the
\* body, after the handler has returned.
Streamed(op, text, mac, result) ==
  [Blank EXCEPT !.op = op, !.text = text, !.mac = mac, !.id = calls + 1,
                !.res = IF result.ok THEN "Ok" ELSE result.err,
                !.pc = IF result.ok THEN "stream" ELSE "done",
                !.stream = IF result.ok THEN result.val ELSE NoHandle]

\* main.rs get_svg
Handle_get_svg(c, text) ==
  /\ CanStart(c)
  /\ calls' = calls + 1
  /\ UNCHANGED <<codec, dir>>
  /\ LET mac == parse(text)
     IN  req' = [req EXCEPT ![c] =
           IF ~mac.ok THEN Rejected("get_svg", text)
           ELSE Streamed("get_svg", text, mac.val, get_svg(dir, mac.val))]

\* main.rs get_png
Handle_get_png(c, text) ==
  /\ CanStart(c)
  /\ calls' = calls + 1
  /\ UNCHANGED <<codec, dir>>
  /\ LET mac == parse(text)
     IN  req' = [req EXCEPT ![c] =
           IF ~mac.ok THEN Rejected("get_png", text)
           ELSE Streamed("get_png", text, mac.val, get_png(dir, mac.val))]

\* What the inode of request r's handle holds now.
StreamData(d, r) == IF r.orphan.some THEN r.orphan.val ELSE d[r.stream.name].data

\* One poll of the response body's ReaderStream: a read of at most a
\* buffer at the handle's position.  A read on a directory fails (EISDIR)
\* and a read of nothing ends the body; what is read is sent.
stream_poll_next(c) ==
  /\ req[c].pc = "stream"
  /\ UNCHANGED <<codec, calls, dir>>
  /\ IF req[c].stream.type = "dir"
       THEN req' = [req EXCEPT ![c].pc = "done", ![c].read = "IsADirectory"]
       ELSE LET bytes == ReadAt(StreamData(dir, req[c]), Len(req[c].got),
                                ReadTokens)
            IN  IF bytes = <<>>
                  THEN req' = [req EXCEPT ![c].pc = "done", ![c].read = "Ok"]
                  ELSE req' = [req EXCEPT ![c].got = @ \o bytes]

\* The byte arrays in descending order.
MacGreater(a, b) ==
  \E k \in 1..MAC_LEN : a[k] > b[k] /\ \A j \in 1..(k - 1) : a[j] = b[j]

\* The derived Ord of EpdMac: the byte arrays in lexicographic order.
MacLess(a, b) ==
  \E k \in 1..MAC_LEN : a[k] < b[k] /\ \A j \in 1..(k - 1) : a[j] = b[j]

RECURSIVE Repeat(_, _)
Repeat(x, n) == IF n = 0 THEN <<>> ELSE <<x>> \o Repeat(x, n - 1)

RECURSIVE SortedStrings(_)
\* macs.sort() and the map to format!("{mac}"), on the Vec given as the
\* number of times it holds each address.
SortedStrings(count) ==
  IF DOMAIN count = {} THEN <<>>
  ELSE LET least == CHOOSE m \in DOMAIN count :
                      \A n \in DOMAIN count \ {m} : MacLess(m, n)
       IN  Repeat(to_string(least), count[least])
             \o SortedStrings([n \in DOMAIN count \ {least} |-> count[n]])

\* main.rs get_macs
Handle_get_macs(c) ==
  /\ CanStart(c)
  /\ calls' = calls + 1
  /\ UNCHANGED <<codec, dir>>
  /\ LET macs == get_macs(dir)
     IN  req' = [req EXCEPT ![c] =
           Answered("get_macs", <<>>, <<>>,
                    IF macs.ok THEN Ok(SortedStrings(macs.val)) ELSE macs)]

(***************************************************************************)
(* The codec on its own: from_str on a text, Display on the result, and    *)
(* the two once more on Display's output.                                  *)
(***************************************************************************)

CodecStart(text) ==
  [stage |-> "text", text |-> text, parsed |-> Err(""), shown |-> <<>>,
   again |-> Err(""), reshown |-> <<>>]

CodecParse ==
  /\ codec.stage = "text"
  /\ codec' = [codec EXCEPT !.stage = "parsed", !.parsed = from_str(codec.text)]
  /\ UNCHANGED <<dir, req, calls>>

CodecFormat ==
  /\ codec.stage = "parsed" /\ codec.parsed.ok
  /\ codec' = [codec EXCEPT !.stage = "shown",
                            !.shown = to_string(codec.parsed.val)]
  /\ UNCHANGED <<dir, req, calls>>

CodecAgain ==
  /\ codec.stage = "shown"
  /\ codec' = [codec EXCEPT
       !.stage = "again",
       !.again = from_str(codec.shown),
       !.reshown = IF from_str(codec.shown).ok
                     THEN to_string(from_str(codec.shown).val) ELSE <<>>]
  /\ UNCHANGED <<dir, req, calls>>

(***************************************************************************)
(* The server: any clients' requests on any of the directories             *)
(***************************************************************************)

Init ==
  /\ codec = CodecStart(<<>>)
  /\ dir \in InitDirs
  /\ req = [c \in Clients |-> Blank]
  /\ calls = 0

Next ==
  \/ \E c \in Clients, t \in Texts, b \in Bodies : Handle_render_svg(c, t, b)
  \/ \E c \in Clients : post_svg_body_png_create(c)
  \/ \E c \in Clients : post_svg_body_png_write(c)
  \/ \E c \in Clients : post_svg_body_write_all(c)
  \/ \E c \in Clients : post_svg_body_blocking_write(c)
  \/ \E c \in Clients, t \in Texts : Handle_delete_images(c, t)
  \/ \E c \in Clients : delete_images_remove_bmp(c)
  \/ \E c \in Clients : delete_images_remove_png(c)
  \/ \E c \in Clients, t \in Texts : Handle_get_svg(c, t)
  \/ \E c \in Clients, t \in Texts : Handle_get_png(c, t)
  \/ \E c \in Clients : stream_poll_next(c)
  \/ \E c \in Clients : Handle_get_macs(c)

Spec == Init /\ [][Next]_vars

\* The handlers on a directory that starts empty.
InitEmpty ==
  /\ codec = CodecStart(<<>>)
  /\ dir = EmptyDir
  /\ req = [c \in Clients |-> Blank]
  /\ calls = 0

SpecEmpty == InitEmpty /\ [][Next]_vars

(***************************************************************************)
(* A caller that goes away.  The server runs each handler as the future of *)
(* its connection (main.rs 46-49, no task is spawned for it), and a future *)
(* that is dropped stops at the await it is suspended at.  post_svg_body   *)
(* is suspended at File::create(svg_path).await while the blocking pool    *)
(* opens the file, and in write_all while the blocking pool writes a piece *)
(* of a document that is larger than the buffer.                           *)
(***************************************************************************)

\* The connection closes while post_svg_body waits at File::create: the
\* blocking open runs all the same and creates or truncates the .svg, the
\* future is dropped with the handle, and nothing after line 106 runs.
render_svg_dropped(c, text, body) ==
  /\ CanStart(c)
  /\ calls' = calls + 1
  /\ UNCHANGED codec
  /\ LET parsed == parse(text) IN
     /\ parsed.ok
     /\ LET mac == parsed.val
            svg_path == FileName(mac, SVG_EXT)
            new == [Blank EXCEPT !.op = "render", !.text = text,
                                 !.mac = mac, !.body = body,
                                 !.id = calls + 1,
                                 !.overlap = OverlapAtStart(c, mac),
                                 !.prev = PrevAtStart(mac),
                                 !.had = AssetFiles(dir, mac),
                                 !.pc = "dropped"]
        IN  /\ dir' = IF CanCreate(dir, svg_path)
                        THEN Created(dir, svg_path, 2 * (calls + 1))
                        ELSE dir
            /\ req' = Begun(c, mac, [new EXCEPT !.changed = (dir' # dir)])

\* The connection closes while write_all waits for the blocking task to
\* write a piece of a document larger than the buffer: the piece is
\* written all the same, the future is dropped, the rest of the document
\* is never written and nothing is answered.
render_svg_dropped_in_write_all(c) ==
  /\ req[c].op = "render" /\ req[c].pc = "write_all_busy"
  /\ UNCHANGED <<codec, calls>>
  /\ LET name == FileName(req[c].mac, SVG_EXT)
         bytes == SubSeq(WrapSvg(req[c].body), req[c].landed + 1, req[c].handed)
     IN  /\ dir' = WrittenAt(dir, name, req[c].svg_ino, req[c].landed, bytes)
         /\ req' = OrphanWritten(
                     Landed(c, [req[c] EXCEPT !.pc = "dropped",
                                             !.landed = req[c].handed,
                                             !.svg_last = TRUE,
                                             !.changed = @ \/ (dir' # dir)],
                            "svg_last"),
                     name, req[c].svg_ino, req[c].landed, bytes)

NextAbandon ==
  \/ Next
  \/ \E c \in Clients, t \in Texts, b \in Bodies : render_svg_dropped(c, t, b)
  \/ \E c \in Clients : render_svg_dropped_in_write_all(c)

\* What the runtime runs once a handler has started: the rest of the
\* handler's synchronous code, and the tasks of the blocking pool.
Steps(c) ==
  \/ post_svg_body_png_create(c)
  \/ post_svg_body_png_write(c)
  \/ post_svg_body_write_all(c)
  \/ post_svg_body_blocking_write(c)
  \/ delete_images_remove_bmp(c)
  \/ delete_images_remove_png(c)

Fairness == \A c \in Clients : WF_vars(Steps(c))

SpecAbandon == InitEmpty /\ [][NextAbandon]_vars /\ Fairness

(***************************************************************************)
(* The codec on the texts of CodecTexts                                    *)
(***************************************************************************)

\* The longest text given to from_str.
MaxTextLen == 17

\* The characters put in place of a text's characters: the ends of the
\* digit ranges and their neighbours, signs, a blank, a two-byte character.
ProbeChars ==
  {"0", "9", "a", "f", "A", "F", "g", "G", "/", ":", "@", "+", "-", " ",
   WideChar}

CodecBases == {Text0011, TextAABB, Textaabb, Text1234, TextPlus}

\* The first n characters of b repeated.
Stretch(b, n) == [k \in 1..n |-> b[((k - 1) % Len(b)) + 1]]

CodecTexts ==
  {<<>>} \cup
  UNION {{[Stretch(b, n) EXCEPT ![p] = ch] :
            b \in CodecBases, p \in 1..n, ch \in ProbeChars} :
         n \in 1..MaxTextLen}

InitCodec ==
  /\ codec \in {CodecStart(t) : t \in CodecTexts}
  /\ dir = EmptyDir
  /\ req = [c \in Clients |-> Blank]
  /\ calls = 0

NextCodec == CodecParse \/ CodecFormat \/ CodecAgain

SpecCodec == InitCodec /\ [][NextCodec]_vars

(***************************************************************************)
(* Properties                                                              *)
(***************************************************************************)

\* Client c is the one whose request this step started or moved on.
Acts(c) == req'[c].id # req[c].id \/ req'[c].pc # req[c].pc

\* This step is client c's request `op`, started and answered in one step.
AnswersAtOnce(c, op) ==
  req'[c].id # req[c].id /\ req'[c].op = op /\ req'[c].res # "None"

\* The store (not the handler) answered the request: its address parsed.
ByStore(r) == r.mac # <<>> /\ r.res # "None"

\* C1: a post_svg_body whose markup the rasterizer rejects answers
\* BadRequest and has changed nothing in the directory: no file of the
\* address was created, truncated, rewritten or removed by it.
C1_MalformedLeavesStore ==
  \A c \in Clients :
    (req[c].op = "render" /\ ByStore(req[c])
       /\ ~from_data(WrapSvg(req[c].body)).ok /\ req[c].res # "InternalServerError")
      => req[c].res = "BadRequest" /\ ~req[c].changed

\* C2: once a post_svg_body on an address has answered Ok, nothing else
\* having run on the address during or since, get_macs succeeds and holds the
\* address, and get_png yields a non-empty image of the configured
\* dimensions, whatever else the directory holds.
C2_RenderedIsListedAndReadable ==
  \A c \in Clients :
    (req[c].op = "render" /\ req[c].res = "Ok" /\ Solo(req[c]) /\ req[c].fresh)
      => /\ get_macs(dir).ok
         /\ req[c].mac \in DOMAIN get_macs(dir).val
         /\ Delivered(dir, get_png(dir, req[c].mac)).ok
         /\ Delivered(dir, get_png(dir, req[c].mac)).val # <<>>
         /\ PngDimensions(Delivered(dir, get_png(dir, req[c].mac)).val)
              = <<EpdWidth, EpdHeight>>

\* The addresses of the entries get_macs is to report: the regular files
\* with the extension png whose stem is an address.
ValidListed(d) ==
  {parse(file_stem(n).val).val :
     n \in {x \in PngNames(d) : d[x].type = "file" /\ parse(file_stem(x).val).ok}}

\* C3: get_macs fails only when the directory cannot be opened; on every
\* directory that can, it answers Ok with the addresses of the valid
\* entries, the other entries skipped.
C3_ListFailsOnlyWithoutDir ==
  [][\A c \in Clients :
       (AnswersAtOnce(c, "get_macs") /\ dir # NoDir)
         => /\ req'[c].res = "Ok"
            /\ get_macs(dir).ok
            /\ DOMAIN get_macs(dir).val = ValidListed(dir)
            /\ {req'[c].got[i] : i \in 1..Len(req'[c].got)}
                 = {to_string(m) : m \in ValidListed(dir)}]_vars

\* C4: delete_images tries all three removals whatever the others did; it
\* answers NotFound exactly when none succeeded, and when some asset of the
\* address was a file beforehand it answers Ok with every such file removed.
C4_DeleteAllThree ==
  \A c \in Clients :
    (req[c].op = "delete" /\ ByStore(req[c]))
      => /\ req[c].res \in {"Ok", "NotFound"}
         /\ req[c].res = "NotFound" <=> req[c].rm = {}
         /\ (Solo(req[c]) /\ req[c].had # {})
              => /\ req[c].res = "Ok"
                 /\ req[c].rm = req[c].had
                 /\ req[c].fresh => AssetFiles(dir, req[c].mac) = {}

\* A delete_images that found only the .bmp has removed it and answered Ok,
\* its first removal and its last having failed.
C4_Witness ==
  \E c \in Clients :
    /\ req[c].op = "delete" /\ ByStore(req[c]) /\ Solo(req[c])
    /\ req[c].had = {"bmp"} /\ req[c].rm = {"bmp"} /\ req[c].res = "Ok"

\* C5: of two delete_images on an address that had an asset, one after the
\* other with nothing else on the address in between, the first answers Ok
\* and leaves none of the three files, and the second answers NotFound and
\* changes nothing.
C5_DeleteTwice ==
  \A c \in Clients :
    (req[c].op = "delete" /\ req[c].mac # <<>> /\ Solo(req[c])
       /\ req[c].prev.op = "delete" /\ req[c].prev.had # {})
      => /\ req[c].prev.res = "Ok"
         /\ req[c].had = {}
         /\ ~req[c].changed
         /\ req[c].res # "None" => req[c].res = "NotFound"

\* The second of two such delete_images has answered.
C5_Witness ==
  \E c \in Clients :
    /\ req[c].op = "delete" /\ ByStore(req[c]) /\ Solo(req[c])
    /\ req[c].prev.op = "delete" /\ req[c].prev.had = {"svg", "png"}
    /\ req[c].res = "NotFound"

\* C6: an address with no entry at any of its three paths gets NotFound
\* from get_svg and get_png and is in no result of get_macs, whatever else
\* the directory holds: every address get_macs returns has a .png that
\* get_png opens.
C6_AbsentIsNotListed ==
  [][\A c \in Clients :
       /\ (AnswersAtOnce(c, "get_macs") /\ req'[c].res = "Ok")
            => \A m \in Macs :
                 (\E i \in 1..Len(req'[c].got) : req'[c].got[i] = to_string(m))
                   => /\ \E k \in Kinds : Exists(dir, FileName(m, ExtOf(k)))
                      /\ get_png(dir, m).ok
       /\ ((AnswersAtOnce(c, "get_svg") \/ AnswersAtOnce(c, "get_png"))
             /\ req'[c].mac # <<>>
             /\ \A k \in Kinds : ~Exists(dir, FileName(req'[c].mac, ExtOf(k))))
            => req'[c].res = "NotFound"]_vars

\* Two post_svg_body on one address, with different bodies, overlapped each
\* other and nothing else, both answered Ok, and their writes have landed.
Raced(c, k) ==
  /\ c # k
  /\ req[c].op = "render" /\ req[k].op = "render"
  /\ req[c].mac = req[k].mac /\ req[c].body # req[k].body
  /\ req[c].res = "Ok" /\ req[k].res = "Ok"
  /\ req[c].pc = "done" /\ req[k].pc = "done"
  /\ req[c].overlap = {req[k].id} /\ req[k].overlap = {req[c].id}
  /\ req[c].fresh /\ req[k].fresh

\* C9: after two concurrent post_svg_body on one address that both answered
\* Ok, the .svg is the whole document of the call whose .svg write landed
\* last and the .png the whole image of the call whose .png write landed
\* last: no file is empty, cut short or a mix of the two.
C9_LastWriteWins ==
  \A c, k \in Clients :
    Raced(c, k)
      => /\ req[c].svg_last
           => Delivered(dir, get_svg(dir, req[c].mac)) = Ok(WrapSvg(req[c].body))
         /\ req[c].png_last
           => Delivered(dir, get_png(dir, req[c].mac))
                = Ok(encode_png(render(from_data(WrapSvg(req[c].body)).val)))

\* The entry at a name, for comparing it across a step.
EntryAt(d, name) == IF Exists(d, name) THEN Some(d[name]) ELSE NoneOpt

\* The file names of an address.
NamesOf(mac) == {FileName(mac, ExtOf(k)) : k \in Kinds}

\* Distinct addresses have no file name in common.
DisjointNames ==
  \A a, b \in Macs : a # b => NamesOf(a) \cap NamesOf(b) = {}

\* C10: the addresses' file names are disjoint, and no step of a request on
\* one address changes whether a file of another address exists, what it
\* holds, what get_svg, get_png or delete_images on the other address
\* answer, or what a response body being read on the other address holds.
C10_OtherAddressesUntouched ==
  [][/\ DisjointNames
     /\ \A c \in Clients :
          (Acts(c) /\ dir' # dir)
            => \A b \in Macs \ {req'[c].mac} :
                 LET path == [k \in Kinds |-> FileName(b, ExtOf(k))]
                     files(d) == {k \in Kinds : IsFile(d, path[k])}
                 IN  /\ \A k \in Kinds :
                          EntryAt(dir', path[k]) = EntryAt(dir, path[k])
                     /\ get_file(dir', path["svg"]) = get_file(dir, path["svg"])
                     /\ get_file(dir', path["png"]) = get_file(dir, path["png"])
                     /\ \A k \in Clients :
                          (req[k].pc = "stream" /\ req[k].mac = b
                             /\ req[k].stream.type = "file")
                            => /\ req'[k].orphan = req[k].orphan
                               /\ StreamData(dir', req'[k])
                                    = StreamData(dir, req[k])
                     /\ DeleteResult(files(dir')) = DeleteResult(files(dir))]_vars

\* A request on one address has changed the directory while a request on
\* the other address, which has files, is in flight.
C10_Witness ==
  \E c, k \in Clients :
    /\ req[c].mac = Mac0011 /\ req[c].changed
    /\ req[k].mac = MacAABB /\ InFlight(req[k])
    /\ AssetFiles(dir, MacAABB) # {}

\* The hexadecimal digits and their values, as the address format gives them.
HexChars ==
  {"0", "1", "2", "3", "4", "5", "6", "7", "8", "9",
   "a", "b", "c", "d", "e", "f", "A", "B", "C", "D", "E", "F"}

HexValue(c) ==
  CASE c \in {"0"} -> 0 [] c \in {"1"} -> 1 [] c \in {"2"} -> 2
    [] c \in {"3"} -> 3 [] c \in {"4"} -> 4 [] c \in {"5"} -> 5
    [] c \in {"6"} -> 6 [] c \in {"7"} -> 7 [] c \in {"8"} -> 8
    [] c \in {"9"} -> 9 [] c \in {"a", "A"} -> 10 [] c \in {"b", "B"} -> 11
    [] c \in {"c", "C"} -> 12 [] c \in {"d", "D"} -> 13
    [] c \in {"e", "E"} -> 14 [] c \in {"f", "F"} -> 15

\* The text is 16 characters, each a hexadecimal digit.
IsHex16(s) == Len(s) = 2 * MAC_LEN /\ \A k \in 1..Len(s) : s[k] \in HexChars

\* The 8 bytes of the digit pairs of a text of 16 hexadecimal digits.
PairsDecoded(s) ==
  [k \in 1..MAC_LEN |-> 16 * HexValue(s[2 * k - 1]) + HexValue(s[2 * k])]

\* char::to_uppercase on the hexadecimal letters
UpperChar(c) ==
  CASE c = "a" -> "A" [] c = "b" -> "B" [] c = "c" -> "C" [] c = "d" -> "D"
    [] c = "e" -> "E" [] c = "f" -> "F"
    [] OTHER -> c

\* str::to_uppercase on the characters from_str accepts
to_uppercase(s) == [k \in 1..Len(s) |-> UpperChar(s[k])]

\* C7: from_str succeeds exactly on the texts of 16 hexadecimal digits, with
\* the 8 bytes of the digit pairs from left to right; on every other text,
\* of another length or with another character anywhere (a sign too), it
\* fails.
C7_ParseExactlyHex16 ==
  codec.stage # "text"
    => /\ codec.parsed.ok <=> IsHex16(codec.text)
       /\ codec.parsed.ok => codec.parsed.val = PairsDecoded(codec.text)

\* C8: for a text from_str accepts, Display of the result is the text in
\* upper case, and from_str then Display on that gives it back unchanged.
C8_FormatParseUppercases ==
  /\ codec.stage \in {"shown", "again"} => codec.shown = to_uppercase(codec.text)
  /\ codec.stage = "again" => codec.again.ok /\ codec.reshown = codec.shown

\* The code point of a character of the canonical address text.
AsciiOf(c) ==
  CASE c = "0" -> 48 [] c = "1" -> 49 [] c = "2" -> 50 [] c = "3" -> 51
    [] c = "4" -> 52 [] c = "5" -> 53 [] c = "6" -> 54 [] c = "7" -> 55
    [] c = "8" -> 56 [] c = "9" -> 57 [] c = "A" -> 65 [] c = "B" -> 66
    [] c = "C" -> 67 [] c = "D" -> 68 [] c = "E" -> 69 [] c = "F" -> 70

\* Sequence a of numbers is before sequence b in lexicographic order.
LexLess(a, b) ==
  \/ Len(a) < Len(b) /\ \A j \in 1..Len(a) : a[j] = b[j]
  \/ \E k \in 1..Len(a) :
       k <= Len(b) /\ a[k] < b[k] /\ \A j \in 1..(k - 1) : a[j] = b[j]

\* The code points of a canonical address text.
CodePoints(s) == [k \in 1..Len(s) |-> AsciiOf(s[k])]

\* The text is the canonical form of an address: 16 upper-case digits.
IsCanonical(s) == IsHex16(s) /\ to_uppercase(s) = s

\* C11: the get_macs handler answers with the canonical 16-digit upper-case
\* text of every address the store's get_macs yields, each as many times as
\* it was yielded, in ascending order of the addresses' bytes, which is also
\* the lexicographic order of the texts.
C11_ListCanonicalSorted ==
  [][\A c \in Clients :
       (AnswersAtOnce(c, "get_macs") /\ req'[c].res = "Ok")
         => LET out == req'[c].got
                yielded == get_macs(dir).val
            IN  /\ \A i \in 1..Len(out) :
                     IsCanonical(out[i]) /\ PairsDecoded(out[i]) \in DOMAIN yielded
                /\ \A m \in DOMAIN yielded :
                     Cardinality({i \in 1..Len(out) : PairsDecoded(out[i]) = m})
                       = yielded[m]
                /\ \A i \in 1..(Len(out) - 1) :
                     /\ ~LexLess(PairsDecoded(out[i + 1]), PairsDecoded(out[i]))
                     /\ ~LexLess(CodePoints(out[i + 1]), CodePoints(out[i]))]_vars

\* A get_macs answer that lists two addresses.
C11_Witness ==
  \E c \in Clients :
    /\ req[c].op = "get_macs" /\ req[c].res = "Ok"
    /\ Len(req[c].got) >= 2 /\ req[c].got[1] # req[c].got[2]

\* A get_macs answer that lists one address twice.
C11_Repeated ==
  \E c \in Clients :
    /\ req[c].op = "get_macs" /\ req[c].res = "Ok"
    /\ Len(req[c].got) >= 2 /\ req[c].got[1] = req[c].got[2]

\* The requests that carry an address text.
AddressOps == {"render", "delete", "get_svg", "get_png"}

\* C12: a delete_images, render_svg, get_svg or get_png request whose
\* address text does not parse is answered BadRequest by the handler, the
\* store not called: the request is over at once, with no address, and the
\* directory is as it was.
C12_RejectedTextIsBadRequest ==
  [][\A c \in Clients :
       (/\ req'[c].id # req[c].id
        /\ req'[c].op \in AddressOps
        /\ ~parse(req'[c].text).ok)
         => /\ req'[c].res = "BadRequest"
            /\ req'[c].pc = "done"
            /\ req'[c].mac = <<>>
            /\ ~req'[c].changed
            /\ dir' = dir]_vars

\* A render and a delete with a text that is no address, both answered,
\* on a directory that holds files.
C12_Witness ==
  \E c, k \in Clients :
    /\ req[c].op = "render" /\ ~from_str(req[c].text).ok /\ req[c].res # "None"
    /\ req[k].op = "delete" /\ ~from_str(req[k].text).ok /\ req[k].res # "None"
    /\ dir = FullDir

\* No request is in flight and no write is pending: every call has
\* completed, and as far as the requests record, one after the other.
Quiet == \A c \in Clients : req[c].pc = "done"

Sequential == \A c \in Clients : req[c].overlap = {}

\* The names in directory d with extension ext.
NamesWith(d, ext) ==
  IF d = NoDir THEN {}
  ELSE {n \in DOMAIN d : extension(n) = Some(SubSeq(ext, 2, Len(ext)))}

\* The documents post_svg_body builds: a body between the svg element's
\* tags, the opening one with the viewBox of the configured dimensions.
WrappedDocuments == {WrapSvg(b) : b \in Bodies}

\* C13: on a directory that started empty, after any sequence of completed
\* render_svg and delete_images calls, malformed renders among them, every
\* .svg file holds a wrapped document; none is empty or a raw body.
C13_SvgAlwaysWrapped ==
  (Quiet /\ Sequential)
    => \A n \in NamesWith(dir, SVG_EXT) :
         IsFile(dir, n) /\ dir[n].data \in WrappedDocuments

\* C14: post_svg_body rasterizes before it changes the directory and writes
\* the .png first: a step of a render changes the directory only with a
\* body that rasterizes, and creates, truncates or writes the address's
\* .svg only once that render's .png write has completed.
C14_PngBeforeSvg ==
  [][\A c \in Clients :
       (Acts(c) /\ req'[c].op = "render" /\ dir' # dir)
         => /\ from_data(WrapSvg(req'[c].body)).ok
            /\ EntryAt(dir', FileName(req'[c].mac, SVG_EXT))
                   # EntryAt(dir, FileName(req'[c].mac, SVG_EXT))
                 => /\ req[c].id = req'[c].id
                    /\ req[c].pc \in {"write_all", "blocking_write"}]_vars

\* The render of client c has answered Ok, no request on its address was in
\* flight while it ran, and none has started on the address since.
RenderedAlone(c) ==
  req[c].op = "render" /\ req[c].res = "Ok" /\ Solo(req[c]) /\ req[c].fresh

\* C15: whatever files the address had before, a post_svg_body that answers
\* Ok with no other request on the address leaves its .svg holding exactly
\* the document wrapped around this call's body and its .png exactly the
\* image rendered from that document.
C15_RenderLeavesBothFiles ==
  \A c \in Clients :
    RenderedAlone(c)
      => /\ Delivered(dir, get_svg(dir, req[c].mac)) = Ok(WrapSvg(req[c].body))
         /\ Delivered(dir, get_png(dir, req[c].mac))
              = Ok(encode_png(render(from_data(WrapSvg(req[c].body)).val)))

\* No request the clients record met an I/O failure.
NoIoFailure == \A c \in Clients : req[c].res # "InternalServerError"

\* C16: on a directory that started empty, with no I/O failure and no two
\* requests on one address overlapping, after any sequence of completed
\* render_svg and delete_images calls, renders rejected for their markup
\* among them, every address has both its .svg and its .png or neither.
C16_AbsentOrPresent ==
  (Quiet /\ Sequential /\ NoIoFailure)
    => \A m \in Macs :
         IsFile(dir, FileName(m, SVG_EXT)) <=> IsFile(dir, FileName(m, PNG_EXT))

\* C17: no step of a render_svg request, answered Ok or with an error,
\* creates, changes or removes a .bmp file of any address; a render that
\* has answered Ok has not created one where there was none.
C17_RenderLeavesBmp ==
  [][\A c \in Clients :
       (Acts(c) /\ req'[c].op = "render")
         => /\ dir' # dir
                 => \A n \in NamesWith(dir, BMP_EXT) \cup NamesWith(dir', BMP_EXT) :
                      EntryAt(dir', n) = EntryAt(dir, n)
            /\ (req'[c].res = "Ok" /\ "bmp" \notin req'[c].had)
                 => ~IsFile(dir', FileName(req'[c].mac, BMP_EXT))]_vars

\* A render overwrote the files of an address that has a .bmp, and
\* answered Ok.
C17_Witness ==
  \E c \in Clients :
    /\ req[c].op = "render" /\ req[c].res = "Ok" /\ req[c].changed
    /\ req[c].had = Kinds /\ IsFile(dir, FileName(req[c].mac, BMP_EXT))

\* A render answered Ok on an address that has no .bmp.
C17_WithoutBmp ==
  \E c \in Clients :
    /\ req[c].op = "render" /\ req[c].res = "Ok"
    /\ "bmp" \notin req[c].had /\ ~Exists(dir, FileName(req[c].mac, BMP_EXT))

\* C18: a post_svg_body that has been invoked runs to its end and answers,
\* whatever its caller does: every render in flight is answered, Ok or
\* with an error, and has then done all of its file operations.
C18_RenderCompletes ==
  \A c \in Clients :
    (req[c].op = "render" /\ req[c].res = "None")
      ~> (req[c].op = "render" => req[c].res # "None" /\ req[c].pc = "done")

====
